---- MODULE Spec2Model ----
(***************************************************************************)
(* Model of RequestService (fetch, fetchJSON, fetchJSONP) of the           *)
(* elasticsearch-service widget.                                           *)
(*                                                                         *)
(* Strings are sequences of tokens: every token is a chunk of characters   *)
(* that contains neither '?' nor '_' unless it is exactly that character,  *)
(* so concatenation is \o and indexOf('?') is a search for the token "?".  *)
(***************************************************************************)
EXTENDS Integers, Sequences, FiniteSets, TLC

VARIABLES
    jsonp,      \* per fetchJSONP call: its constants, timer, promise, counters
    window,     \* the global object: set of [name, fn], fn the owning call (0: undefined)
    head,       \* children of <head> injected as JSONP scripts, document order
    uncaught,   \* exceptions that escaped a callback or timeout handler
    legacy,     \* the platform throws on `delete window[name]`
    req,        \* the fetch invocation: its inputs, the xhr, the promise
    json,       \* the fetchJSON invocation: its inputs, the promise it returns
    searchURL,  \* ElasticSearchService._searchURL
    searches,   \* per search call: its inputs, its request, the promise it returns
    jobs,       \* promise reactions queued and not run yet, oldest first
    order       \* the search calls in the order their promises settled

vars == <<jsonp, window, head, uncaught, legacy, req, json, searchURL, searches, jobs, order>>

jsonpVars == <<jsonp, window, head, uncaught, legacy>>

searchVars == <<searchURL, searches, jobs, order>>

----------------------------------------------------------------------------
(* Bounds *)

MaxCalls == 2

Calls == 1..MaxCalls

MaxSearches == 2

Searches == 1..MaxSearches

----------------------------------------------------------------------------
(* JavaScript values *)

Undef == [t |-> "undefined"]

Null == [t |-> "null"]

Fn == [t |-> "function"]

Str(s) == [t |-> "string", v |-> s]

Num(n) == [t |-> "number", v |-> n]

Bool(b) == [t |-> "boolean", v |-> b]

\* props: sequence of [key, val, own] in for-in enumeration order
Obj(props) == [t |-> "object", props |-> props]

\* items: sequence of values
Arr(items) == [t |-> "array", items |-> items]

Prop(k, v) == [key |-> k, val |-> v, own |-> TRUE]

Inherited(k, v) == [key |-> k, val |-> v, own |-> FALSE]

\* typeof x
TypeOf(x) == IF x.t \in {"null", "array"} THEN "object" ELSE x.t

\* ToBoolean(x), the test of `if (x)` and `x ? a : b`
Truthy(x) ==
    CASE x.t = "undefined" -> FALSE
      [] x.t = "null"      -> FALSE
      [] x.t = "string"    -> x.v # <<>>
      [] x.t = "number"    -> x.v # 0
      [] x.t = "boolean"   -> x.v
      [] OTHER             -> TRUE

\* `${x}`: string conversion of a value inside a template literal
ToStr(x) ==
    CASE x.t = "undefined" -> <<"undefined">>
      [] x.t = "null"      -> <<"null">>
      [] x.t = "string"    -> x.v
      [] x.t = "number"    -> <<ToString(x.v)>>
      [] x.t = "boolean"   -> IF x.v THEN <<"true">> ELSE <<"false">>
      [] x.t = "function"  -> <<"function(){}">>
      [] x.t = "array"     -> <<"[array]">>
      [] OTHER             -> <<"[object Object]">>

\* s.indexOf(tok): 0-based position of the first occurrence, -1 when absent
IndexOf(s, tok) ==
    IF \E i \in 1..Len(s) : s[i] = tok
    THEN (CHOOSE i \in 1..Len(s) : s[i] = tok /\ \A j \in 1..(i-1) : s[j] # tok) - 1
    ELSE -1

\* s === 'literal'
IsStr(x, s) == x.t = "string" /\ x.v = s

RECURSIVE JoinWith(_, _)
\* parts.join(sep)
JoinWith(parts, sep) ==
    IF parts = <<>> THEN <<>>
    ELSE IF Len(parts) = 1 THEN Head(parts)
    ELSE Head(parts) \o sep \o JoinWith(Tail(parts), sep)

RECURSIVE JsonStringify(_)
\* JSON.stringify(x): undefined for undefined and functions; own enumerable
\* properties of an object whose value serialises, in enumeration order
JsonStringify(x) ==
    CASE x.t = "undefined" -> Undef
      [] x.t = "function"  -> Undef
      [] x.t = "null"      -> Str(<<"null">>)
      [] x.t = "string"    -> Str(<<"\"">> \o x.v \o <<"\"">>)
      [] x.t = "number"    -> Str(<<ToString(x.v)>>)
      [] x.t = "boolean"   -> Str(IF x.v THEN <<"true">> ELSE <<"false">>)
      [] x.t = "array"     ->
           LET parts == [i \in 1..Len(x.items) |->
                            IF JsonStringify(x.items[i]).t = "string"
                            THEN JsonStringify(x.items[i]).v
                            ELSE <<"null">>]
           IN  Str(<<"[">> \o JoinWith(parts, <<",">>) \o <<"]">>)
      [] OTHER ->
           LET kept  == SelectSeq(x.props,
                            LAMBDA p : p.own /\ JsonStringify(p.val).t = "string")
               parts == [i \in 1..Len(kept) |->
                            <<"\"">> \o kept[i].key \o <<"\"", ":">>
                                \o JsonStringify(kept[i].val).v]
           IN  Str(<<"{">> \o JoinWith(parts, <<",">>) \o <<"}">>)

\* obj[key]: the first property of that name, own or inherited
GetProp(obj, key) ==
    IF obj.t = "object" /\ \E i \in 1..Len(obj.props) : obj.props[i].key = key
    THEN obj.props[CHOOSE i \in 1..Len(obj.props) :
                      /\ obj.props[i].key = key
                      /\ \A j \in 1..(i - 1) : obj.props[j].key # key].val
    ELSE Undef

\* obj[key] = val: an own property is overwritten in place, a new one comes last
SetProp(obj, key, val) ==
    IF \E i \in 1..Len(obj.props) : obj.props[i].key = key /\ obj.props[i].own
    THEN Obj([i \in 1..Len(obj.props) |->
                 IF obj.props[i].key = key /\ obj.props[i].own
                 THEN Prop(key, val) ELSE obj.props[i]])
    ELSE Obj(Append(obj.props, Prop(key, val)))

Digits == 0..9

IsNumeral(tok) == \E n \in Digits : ToString(n) = tok

NumeralValue(tok) == CHOOSE n \in Digits : ToString(n) = tok

ParseFail == [ok |-> FALSE, val |-> Undef, rest |-> <<>>]

\* the tokens of a string literal up to its closing quote
RECURSIVE ParseChars(_, _)
ParseChars(toks, acc) ==
    IF toks = <<>> THEN ParseFail
    ELSE IF Head(toks) = "\"" THEN [ok |-> TRUE, val |-> Str(acc), rest |-> Tail(toks)]
    ELSE ParseChars(Tail(toks), acc \o <<Head(toks)>>)

RECURSIVE ParseValue(_), ParseMembers(_, _), ParseItems(_, _)
\* JSON.parse, one value at the head of toks
ParseValue(toks) ==
    IF toks = <<>> THEN ParseFail
    ELSE LET h == Head(toks)
             t == Tail(toks)
         IN  CASE h = "{" ->
                    IF t # <<>> /\ Head(t) = "}"
                    THEN [ok |-> TRUE, val |-> Obj(<<>>), rest |-> Tail(t)]
                    ELSE ParseMembers(t, <<>>)
               [] h = "[" ->
                    IF t # <<>> /\ Head(t) = "]"
                    THEN [ok |-> TRUE, val |-> Arr(<<>>), rest |-> Tail(t)]
                    ELSE ParseItems(t, <<>>)
               [] h = "\""    -> ParseChars(t, <<>>)
               [] h = "null"  -> [ok |-> TRUE, val |-> Null, rest |-> t]
               [] h = "true"  -> [ok |-> TRUE, val |-> Bool(TRUE), rest |-> t]
               [] h = "false" -> [ok |-> TRUE, val |-> Bool(FALSE), rest |-> t]
               [] OTHER ->
                    IF IsNumeral(h)
                    THEN [ok |-> TRUE, val |-> Num(NumeralValue(h)), rest |-> t]
                    ELSE ParseFail

\* "key": value, then ',' and more members or '}'
ParseMembers(toks, props) ==
    IF toks = <<>> \/ Head(toks) # "\"" THEN ParseFail
    ELSE LET k == ParseChars(Tail(toks), <<>>)
         IN  IF ~k.ok \/ k.rest = <<>> \/ Head(k.rest) # ":" THEN ParseFail
             ELSE LET v == ParseValue(Tail(k.rest))
                  IN  IF ~v.ok \/ v.rest = <<>> THEN ParseFail
                      ELSE LET all == Append(props, Prop(k.val.v, v.val))
                           IN  CASE Head(v.rest) = "}" ->
                                      [ok |-> TRUE, val |-> Obj(all), rest |-> Tail(v.rest)]
                                 [] Head(v.rest) = "," -> ParseMembers(Tail(v.rest), all)
                                 [] OTHER -> ParseFail

\* value, then ',' and more items or ']'
ParseItems(toks, items) ==
    LET v == ParseValue(toks)
    IN  IF ~v.ok \/ v.rest = <<>> THEN ParseFail
        ELSE LET all == Append(items, v.val)
             IN  CASE Head(v.rest) = "]" ->
                        [ok |-> TRUE, val |-> Arr(all), rest |-> Tail(v.rest)]
                   [] Head(v.rest) = "," -> ParseItems(Tail(v.rest), all)
                   [] OTHER -> ParseFail

\* JSON.parse(text): the value, or the SyntaxError it throws
JsonParse(text) ==
    LET r == ParseValue(text)
    IN  IF r.ok /\ r.rest = <<>>
        THEN [ok |-> TRUE, val |-> r.val]
        ELSE [ok |-> FALSE, val |-> [kind |-> "SyntaxError", message |-> <<"JSON.parse">>]]

----------------------------------------------------------------------------
(* fetchJSONP: inputs *)

UrlPlain == <<"https://e/search">>

UrlQuery == <<"https://e/search", "?", "q=x">>

JSONOptions(timeout, callback, callbackFunction) ==
    [t |-> "object", timeout |-> timeout, callback |-> callback,
     callbackFunction |-> callbackFunction]

\* The calls a page makes: no options, colliding script ids under distinct
\* function names, and the same explicit function name twice.
JSONPInputs ==
    { [url |-> UrlPlain, options |-> Undef],
      [url |-> UrlQuery, options |-> JSONOptions(Undef, Str(<<"a", "_", "b">>), Str(<<"c">>))],
      [url |-> UrlPlain, options |-> JSONOptions(Undef, Str(<<"a">>), Str(<<"b", "_", "c">>))],
      [url |-> UrlQuery, options |-> JSONOptions(Num(100), Str(<<>>), Str(<<"c">>))] }

\* Date.now() and Math.ceil(Math.random() * 100000) at the time of a call
Nows == {1}

Randoms == {1, 2}

Payloads == {"p1", "p2"}

----------------------------------------------------------------------------
(* fetchJSONP: the call *)

DefaultTimeout == 5000

\* const timeout = options && options.timeout ? options.timeout : 5000
TimeoutOf(options) ==
    IF Truthy(options) /\ Truthy(options.timeout) THEN options.timeout.v ELSE DefaultTimeout

\* const callbackFn = options && options.callback ? options.callback : 'callback'
CallbackFnOf(options) ==
    IF Truthy(options) /\ Truthy(options.callback) THEN options.callback.v ELSE <<"callback">>

\* `jsonp_${Date.now()}_${Math.ceil(Math.random() * 100000)}`
GeneratedName(now, rnd) == <<"jsonp", "_", ToString(now), "_", ToString(rnd)>>

CallbackFnNameOf(options, now, rnd) ==
    IF Truthy(options) /\ Truthy(options.callbackFunction)
    THEN options.callbackFunction.v
    ELSE GeneratedName(now, rnd)

\* const scriptId = `${callbackFn}_${callbackFnName}`
ScriptIdOf(callbackFn, callbackFnName) == callbackFn \o <<"_">> \o callbackFnName

\* url += (url.indexOf('?') === -1) ? '?' : '&'
WithSeparator(url) == url \o (IF IndexOf(url, "?") = -1 THEN <<"?">> ELSE <<"&">>)

\* `${url}${callbackFn}=${callbackFnName}`
ScriptSrc(url, callbackFn, callbackFnName) ==
    WithSeparator(url) \o callbackFn \o <<"=">> \o callbackFnName

\* new Error(`JSONP request to ${_url} timed out`)
TimeoutError(url) ==
    [kind |-> "Error", message |-> <<"JSONP request to ">> \o url \o <<" timed out">>]

NoCall ==
    [started |-> FALSE, url |-> <<>>, timeout |-> 0, callbackFn |-> <<>>,
     callbackFnName |-> <<>>, scriptId |-> <<>>, timer |-> "none",
     outcome |-> "pending", value |-> "none", loaded |-> "no",
     cbRuns |-> 0, toRuns |-> 0, removed |-> 0, cleared |-> 0]

\* window[name]: -1 when the property is absent, 0 when it holds undefined
Lookup(w, name) ==
    IF \E e \in w : e.name = name THEN (CHOOSE e \in w : e.name = name).fn ELSE -1

AssignIfAbsent(w, name, fn) ==
    IF \E e \in w : e.name = name /\ e.fn > 0
    THEN w
    ELSE {e \in w : e.name # name} \cup {[name |-> name, fn |-> fn]}

\* window[name] = fn
Assign(w, name, fn) == {e \in w : e.name # name} \cup {[name |-> name, fn |-> fn]}

ClearFunctionKeeps(w, name, throws) == w

\* _clearFunction: delete window[name], and window[name] = undefined when
\* the delete throws
ClearFunction(w, name, throws) ==
    IF throws THEN Assign(w, name, 0) ELSE {e \in w : e.name # name}

\* document.getElementById(scriptId): position of the first element, 0 for null
GetElementById(h, scriptId) ==
    IF \E i \in 1..Len(h) : h[i].id = scriptId
    THEN CHOOSE i \in 1..Len(h) : h[i].id = scriptId /\ \A j \in 1..(i-1) : h[j].id # scriptId
    ELSE 0

RemoveAt(h, i) == SubSeq(h, 1, i - 1) \o SubSeq(h, i + 1, Len(h))

\* _removeScript: head.removeChild(getElementById(scriptId)); removeChild(null) throws
RemoveScript(h, scriptId) ==
    LET i == GetElementById(h, scriptId)
    IN  [threw |-> i = 0, head |-> IF i = 0 THEN h ELSE RemoveAt(h, i)]

\* resolve(response): settles a pending promise, a no-op on a settled one
Resolve(call, response) ==
    IF call.outcome = "pending"
    THEN [call EXCEPT !.outcome = "resolved", !.value = response]
    ELSE call

RejectReasonBuiltUrl(call) == TimeoutError(WithSeparator(call.url))

\* reason of the rejection raised by the timeout handler
RejectReason(call) == TimeoutError(call.url)

\* reject(reason): settles a pending promise, a no-op on a settled one
Reject(call, reason) ==
    IF call.outcome = "pending"
    THEN [call EXCEPT !.outcome = "rejected", !.value = reason]
    ELSE call

ClearTimeoutForgotten(call) == call

\* if (timeoutId) clearTimeout(timeoutId): timeoutId was assigned by the
\* executor and is a positive handle; clearing a timer that fired does nothing
ClearTimeout(call) ==
    IF call.timer = "pending" THEN [call EXCEPT !.timer = "cancelled"] ELSE call

State(j, w, h, u) == [jsonp |-> j, window |-> w, head |-> h, uncaught |-> u]

\* window[callbackFnName] = (response) => { resolve; clearTimeout;
\* _removeScript; _clearFunction } of call c: an exception of _removeScript
\* leaves the handler before _clearFunction
WindowCallback(S, c, response, throws) ==
    LET call == ClearTimeout(Resolve(S.jsonp[c], response))
        rs   == RemoveScript(S.head, call.scriptId)
    IN  IF rs.threw
        THEN State([S.jsonp EXCEPT ![c] = [call EXCEPT !.cbRuns = @ + 1]],
                   S.window, S.head,
                   S.uncaught \cup {[handler |-> "callback", call |-> c]})
        ELSE State([S.jsonp EXCEPT ![c] = [call EXCEPT !.cbRuns = @ + 1,
                                                      !.removed = @ + 1,
                                                      !.cleared = @ + 1]],
                   ClearFunction(S.window, call.callbackFnName, throws),
                   rs.head, S.uncaught)

\* setTimeout(() => { reject; _clearFunction; _removeScript }, timeout) of call c
TimeoutCallback(S, c, throws) ==
    LET call == [Reject(S.jsonp[c], RejectReason(S.jsonp[c])) EXCEPT !.timer = "fired"]
        rs   == RemoveScript(S.head, call.scriptId)
    IN  State([S.jsonp EXCEPT ![c] = [call EXCEPT !.toRuns = @ + 1,
                                                  !.cleared = @ + 1,
                                                  !.removed = @ + (IF rs.threw THEN 0 ELSE 1)]],
              ClearFunction(S.window, call.callbackFnName, throws),
              rs.head,
              IF rs.threw
              THEN S.uncaught \cup {[handler |-> "timeout", call |-> c]}
              ELSE S.uncaught)

Current == State(jsonp, window, head, uncaught)

Becomes(S) ==
    /\ jsonp' = S.jsonp
    /\ window' = S.window
    /\ head' = S.head
    /\ uncaught' = S.uncaught

----------------------------------------------------------------------------
(* fetchJSONP: actions *)

\* fetchJSONP(_url, options): the executor registers the callback, injects
\* the script and arms the timer
FetchJSONP(c, in, now, rnd) ==
    /\ ~jsonp[c].started
    /\ \A d \in 1..(c - 1) : jsonp[d].started
    /\ LET callbackFn     == CallbackFnOf(in.options)
           callbackFnName == CallbackFnNameOf(in.options, now, rnd)
           scriptId       == ScriptIdOf(callbackFn, callbackFnName)
       IN  /\ jsonp' = [jsonp EXCEPT ![c] =
                  [NoCall EXCEPT !.started = TRUE, !.url = in.url,
                                 !.timeout = TimeoutOf(in.options),
                                 !.callbackFn = callbackFn,
                                 !.callbackFnName = callbackFnName,
                                 !.scriptId = scriptId,
                                 !.timer = "pending"]]
           /\ window' = Assign(window, callbackFnName, c)
           /\ head' = Append(head, [id |-> scriptId, call |-> c,
                                    src |-> ScriptSrc(in.url, callbackFn, callbackFnName)])
    /\ UNCHANGED <<uncaught, legacy, req, json, searchVars>>

\* The script injected by call c arrives and runs `<callbackFnName>(payload)`
\* while a function is registered under that name: the function runs
ScriptRuns(c, payload) ==
    /\ jsonp[c].started
    /\ jsonp[c].loaded = "no"
    /\ Lookup(window, jsonp[c].callbackFnName) > 0
    /\ Becomes(WindowCallback(
           State([jsonp EXCEPT ![c].loaded = payload], window, head, uncaught),
           Lookup(window, jsonp[c].callbackFnName), payload, legacy))
    /\ UNCHANGED <<legacy, req, json, searchVars>>

\* The script injected by call c arrives while no function is registered
\* under its name: the script fails on its own (ReferenceError, TypeError)
ScriptFails(c) ==
    /\ jsonp[c].started
    /\ jsonp[c].loaded = "no"
    /\ Lookup(window, jsonp[c].callbackFnName) <= 0
    /\ jsonp' = [jsonp EXCEPT ![c].loaded = "failed"]
    /\ UNCHANGED <<window, head, uncaught, legacy, req, json, searchVars>>

\* The timer of call c fires
Timeout(c) ==
    /\ jsonp[c].timer = "pending"
    /\ Becomes(TimeoutCallback(Current, c, legacy))
    /\ UNCHANGED <<legacy, req, json, searchVars>>

\* Other code of the page removes a script element from <head>
DomRemoveScript(i) ==
    /\ i \in 1..Len(head)
    /\ head' = RemoveAt(head, i)
    /\ UNCHANGED <<jsonp, window, uncaught, legacy, req, json, searchVars>>

NoReq ==
    [phase |-> "idle", url |-> <<>>, options |-> Undef, opened |-> Undef,
     headers |-> <<>>, sent |-> [t |-> "unsent"], outcome |-> "pending", value |-> "none",
     opens |-> 0, sends |-> 0, event |-> [t |-> "none"]]

\* fetchJSON before it is invoked
NoJson ==
    [phase |-> "idle", url |-> <<>>, given |-> Undef, outcome |-> "pending",
     value |-> "none", parses |-> 0]

\* search before it is invoked
NoSearch ==
    [phase |-> "idle", term |-> <<>>, custom |-> Undef, endpoint |-> <<>>,
     req |-> NoReq, arrived |-> 0, json |-> NoJson]

\* no fetchJSON and no search was made; the endpoint is the initial ""
NothingElse ==
    /\ json = NoJson
    /\ searchURL = <<>>
    /\ searches = [i \in Searches |-> NoSearch]
    /\ jobs = <<>>
    /\ order = <<>>

Init ==
    /\ jsonp = [c \in Calls |-> NoCall]
    /\ window = {}
    /\ head = <<>>
    /\ uncaught = {}
    /\ legacy \in BOOLEAN
    /\ req = NoReq
    /\ NothingElse

Next ==
    \/ \E c \in Calls, in \in JSONPInputs, now \in Nows, rnd \in Randoms :
          FetchJSONP(c, in, now, rnd)
    \/ \E c \in Calls, payload \in Payloads : ScriptRuns(c, payload)
    \/ \E c \in Calls : ScriptFails(c)
    \/ \E c \in Calls : Timeout(c)

Spec == Init /\ [][Next]_vars

NextDom ==
    \/ Next
    \/ \E i \in 1..MaxCalls : DomRemoveScript(i)

SpecDom == Init /\ [][NextDom]_vars

----------------------------------------------------------------------------
(* fetchJSONP: properties *)

Started == {c \in Calls : jsonp[c].started}

Handled(c) == jsonp[c].cbRuns + jsonp[c].toRuns

CountId(h, scriptId) == Cardinality({i \in 1..Len(h) : h[i].id = scriptId})

InHead(h, c) == \E i \in 1..Len(h) : h[i].call = c

\* no other call made so far shares the callback name or the script id of c
Alone(c) ==
    \A d \in Started \ {c} :
        /\ jsonp[d].callbackFnName # jsonp[c].callbackFnName
        /\ jsonp[d].scriptId # jsonp[c].scriptId

SameCleanup(c) ==
    /\ jsonp'[c].cbRuns = jsonp[c].cbRuns
    /\ jsonp'[c].toRuns = jsonp[c].toRuns
    /\ jsonp'[c].removed = jsonp[c].removed
    /\ jsonp'[c].cleared = jsonp[c].cleared

\* C1: whatever the order of the two triggers of a call (callback, timer),
\* the handlers of the call run its cleanup exactly once: at most one handler
\* of the call ever runs, it removes one script element and clears the
\* callback once, and a settled call has run exactly one cleanup.
C1_CleanupExactlyOnce ==
    \A c \in Calls :
        /\ Handled(c) <= 1
        /\ jsonp[c].removed = Handled(c)
        /\ jsonp[c].cleared = Handled(c)
        /\ (jsonp[c].outcome # "pending" <=> Handled(c) = 1)

\* both triggers of a call have happened (timer fired, its script arrived)
\* and its cleanup has run once
C1_Witness ==
    \E c \in Calls :
        /\ jsonp[c].timer = "fired"
        /\ jsonp[c].loaded # "no"
        /\ jsonp[c].removed = 1
        /\ jsonp[c].cleared = 1

\* C2: when the timer of a call fires before its callback ran, the call is
\* rejected with "JSONP request to <original url> timed out", the callback
\* name is no longer callable and one script element with the call's id is
\* removed (the call's own when no other call shares its id); afterwards the
\* outcome and the cleanup counters of the call never change, and the late
\* arrival of its script changes nothing at all when no other call shares
\* its callback name.
C2_TimeoutFirst ==
    [][\A c \in Calls :
        /\ (jsonp[c].timer = "pending" /\ jsonp'[c].timer = "fired") =>
              /\ jsonp'[c].outcome = "rejected"
              /\ jsonp'[c].value.kind = "Error"
              /\ jsonp'[c].value.message =
                     <<"JSONP request to ">> \o jsonp[c].url \o <<" timed out">>
              /\ Lookup(window', jsonp[c].callbackFnName) <= 0
              /\ CountId(head', jsonp[c].scriptId) = CountId(head, jsonp[c].scriptId) - 1
              /\ (Alone(c) => ~InHead(head', c))
        /\ jsonp[c].outcome = "rejected" =>
              /\ jsonp'[c].outcome = "rejected"
              /\ jsonp'[c].value = jsonp[c].value
              /\ jsonp'[c].timer = "fired"
              /\ SameCleanup(c)
              /\ (jsonp[c].loaded = "no" /\ jsonp'[c].loaded # "no" /\ Alone(c)) =>
                    /\ UNCHANGED <<window, head, uncaught>>
                    /\ \A d \in Calls \ {c} : jsonp'[d] = jsonp[d]
      ]_vars

\* a lone call timed out and its response arrived afterwards
C2_Witness ==
    \E c \in Calls :
        /\ Started = {c}
        /\ jsonp[c].outcome = "rejected"
        /\ jsonp[c].loaded \in Payloads \cup {"failed"}
        /\ jsonp[c].toRuns = 1
        /\ jsonp[c].url = UrlQuery

\* C3: when the callback of a call runs while its timer is pending, the call
\* is resolved with the payload the arriving script delivered, the timer is
\* cancelled, the callback name is no longer callable and one script element
\* with the call's id is removed (the call's own when no other call shares
\* its id); a cancelled timer never fires: no rejection and no second cleanup
\* follow.
C3_CallbackFirst ==
    [][\A c \in Calls :
        /\ (jsonp[c].timer = "pending" /\ jsonp'[c].cbRuns = jsonp[c].cbRuns + 1) =>
              /\ jsonp'[c].outcome = "resolved"
              /\ \E d \in Calls :
                    /\ jsonp[d].loaded = "no"
                    /\ jsonp'[d].loaded \in Payloads
                    /\ jsonp'[c].value = jsonp'[d].loaded
              /\ jsonp'[c].timer = "cancelled"
              /\ Lookup(window', jsonp[c].callbackFnName) <= 0
              /\ CountId(head', jsonp[c].scriptId) = CountId(head, jsonp[c].scriptId) - 1
              /\ (Alone(c) => ~InHead(head', c))
        /\ jsonp[c].outcome = "resolved" =>
              /\ jsonp[c].timer = "cancelled"
              /\ jsonp'[c].timer = "cancelled"
              /\ jsonp'[c].outcome = "resolved"
              /\ jsonp'[c].value = jsonp[c].value
              /\ SameCleanup(c)
      ]_vars

\* a call resolved by its callback, its timer cancelled
C3_Witness ==
    \E c \in Calls :
        /\ jsonp[c].outcome = "resolved"
        /\ jsonp[c].value \in Payloads
        /\ jsonp[c].timer = "cancelled"
        /\ jsonp[c].cbRuns = 1
        /\ jsonp[c].toRuns = 0

DistinctNames ==
    \A c, d \in Started : c # d => jsonp[c].callbackFnName # jsonp[d].callbackFnName

\* C4: while the calls made use pairwise distinct callback function names,
\* every call whose handlers have not run yet still has its own script
\* element in the document and its own function registered under its name.
C4_ExclusiveOwnership ==
    DistinctNames =>
        \A c \in Started :
            Handled(c) = 0 =>
                /\ InHead(head, c)
                /\ Lookup(window, jsonp[c].callbackFnName) = c

\* C5: no exception escapes the callback or the timeout handler, and a
\* handler that ran has cleared the callback of its call, also when the
\* script element had left the document before.
C5_CleanupSwallowed ==
    /\ uncaught = {}
    /\ \A c \in Calls : Handled(c) = 1 => jsonp[c].cleared = 1

----------------------------------------------------------------------------
(* fetch: inputs *)

RequestOptions(method, headers, body, credentials) ==
    [t |-> "object", method |-> method, headers |-> headers, body |-> body,
     credentials |-> credentials]

Credentials(username, password) ==
    [t |-> "object", username |-> username, password |-> password]

MethodValues ==
    {Undef} \cup {Str(<<m>>) : m \in {"GET", "POST", "PUT", "DELETE", "HEAD", "OPTIONS"}}

BodyValues ==
    { Undef, Null, Fn,
      Str(<<>>), Str(<<"x">>), Num(0), Num(5), Bool(FALSE), Bool(TRUE),
      Obj(<<>>),
      Obj(<<Prop(<<"q">>, Str(<<"x">>)), Prop(<<"limit">>, Num(5))>>),
      Obj(<<Prop(<<"a">>, Str(<<"1", "&", "b=2">>)), Inherited(<<"z">>, Num(1)),
            Prop(<<"n">>, Null)>>) }

HeaderValues ==
    { Undef,
      Obj(<<Prop(<<"X-Requested-With">>, Str(<<"widget">>)),
            Inherited(<<"toString">>, Fn)>>) }

CredentialValues ==
    { Undef,
      Credentials(Str(<<"user">>), Undef),
      Credentials(Str(<<>>), Str(<<"secret">>)) }

FetchInputs ==
    { [url |-> u, options |-> Undef] : u \in {UrlPlain, UrlQuery} }
    \cup
    { [url |-> u, options |-> RequestOptions(m, h, b, c)] :
        u \in {UrlPlain, UrlQuery}, m \in MethodValues, h \in HeaderValues,
        b \in BodyValues, c \in CredentialValues }

\* {"hits":{"total":2,"hits":[{"highlight":{"url":["<strong>chair</strong>"]}}]}}
ChairResponse ==
    <<"{", "\"", "hits", "\"", ":", "{", "\"", "total", "\"", ":", "2", ",",
      "\"", "hits", "\"", ":", "[", "{", "\"", "highlight", "\"", ":", "{",
      "\"", "url", "\"", ":", "[", "\"", "<strong>chair</strong>", "\"", "]",
      "}", "}", "]", "}", "}">>

\* response bodies: not JSON, empty, a JSON document cut short, the search result
ResponseTexts ==
    {<<"Internal Error">>, <<>>, <<"{", "\"", "hits", "\"", ":">>, ChairResponse}

\* what the transport reports on load: `response` is absent on old platforms
\* and is the text on the others (responseType is never set)
XhrLoads ==
    { [status |-> st, responseText |-> txt, hasResponse |-> hr, response |-> txt] :
        st \in {0, 200, 404, 500},
        txt \in ResponseTexts,
        hr \in BOOLEAN }

\* event.error of the error event: absent on many platforms
ErrorEvents == {Undef, [kind |-> "Error", message |-> <<"net">>]}

----------------------------------------------------------------------------
(* fetch: the executor *)

\* if (!options) options = {}
OptionsOrEmpty(options) ==
    IF Truthy(options) THEN options ELSE RequestOptions(Undef, Undef, Undef, Undef)

\* (options.method === 'GET' || options.method === 'DELETE') && options.body
QueryBranch(o) ==
    (IsStr(o.method, <<"GET">>) \/ IsStr(o.method, <<"DELETE">>)) /\ Truthy(o.body)

RECURSIVE QueryLoop(_, _, _)
\* for (var key in body) if (body.hasOwnProperty(key))
\*     { uri += `${separator}${key}=${body[key]}`; separator = '&' }
QueryLoop(props, separator, uri) ==
    IF props = <<>> THEN uri
    ELSE LET p == Head(props)
         IN  IF p.own
             THEN QueryLoop(Tail(props), <<"&">>,
                            uri \o separator \o p.key \o <<"=">> \o ToStr(p.val))
             ELSE QueryLoop(Tail(props), separator, uri)

QueryString(body) == QueryLoop(body.props, <<>>, <<>>)

AppendQueryAlwaysNew(url, uri) == url \o <<"?">> \o uri

\* url + (url.indexOf('?') === -1 ? '?' : '&') + uri
AppendQuery(url, uri) ==
    url \o (IF IndexOf(url, "?") = -1 THEN <<"?">> ELSE <<"&">>) \o uri

GetBodyError ==
    [kind |-> "TypeError",
     message |-> <<"Non object like body not allowed for GET requests. The body has to be an object so the properties will be appended as a GET parameter to the url.">>]

HeadBodyError == [kind |-> "TypeError", message |-> <<"Body not allowed for HEAD requests">>]

\* the if / else-if over the body: the url to open, options.body afterwards,
\* and whether the executor rejected and returned
EncodeBody(url, o) ==
    IF QueryBranch(o)
    THEN IF TypeOf(o.body) = "object"
         THEN [rejected |-> FALSE, url |-> AppendQuery(url, QueryString(o.body)),
               body |-> o.body]
         ELSE [rejected |-> TRUE, url |-> url, body |-> o.body]
    ELSE IF TypeOf(o.body) # "string"
         THEN [rejected |-> FALSE, url |-> url, body |-> JsonStringify(o.body)]
         ELSE [rejected |-> FALSE, url |-> url, body |-> o.body]

HeadWithRawBody(o, body) == IsStr(o.method, <<"HEAD">>) /\ Truthy(o.body)

\* options.method === 'HEAD' && options.body, after the encoding
HeadWithBody(o, body) == IsStr(o.method, <<"HEAD">>) /\ Truthy(body)

\* options.method ? options.method : 'GET'
OpenMethod(o) == IF Truthy(o.method) THEN o.method.v ELSE <<"GET">>

\* xhr.open(method, url, true[, username, password])
OpenArgs(o, url) ==
    IF Truthy(o.credentials) /\ Truthy(o.credentials.username)
    THEN [t |-> "open", method |-> OpenMethod(o), url |-> url, async |-> TRUE,
          credentials |-> TRUE, username |-> o.credentials.username,
          password |-> o.credentials.password]
    ELSE [t |-> "open", method |-> OpenMethod(o), url |-> url, async |-> TRUE,
          credentials |-> FALSE, username |-> Undef, password |-> Undef]

\* if (typeof headers === 'object') for (var key in headers)
\*     if (headers.hasOwnProperty(key)) xhr.setRequestHeader(key, headers[key])
SetHeaders(headers) ==
    IF TypeOf(headers) = "object" /\ headers.t = "object"
    THEN LET own == SelectSeq(headers.props, LAMBDA p : p.own)
         IN  [i \in 1..Len(own) |-> [key |-> own[i].key, val |-> own[i].val]]
    ELSE <<>>

\* xhr.send(typeof options.body === 'undefined' ? null : options.body)
SendArg(body) == IF TypeOf(body) = "undefined" THEN Null ELSE body

\* new Promise(executor) of fetch(url, options)
Executor(url, options) ==
    LET o   == OptionsOrEmpty(options)
        enc == EncodeBody(url, o)
        new == [NoReq EXCEPT !.url = url, !.options = options]
    IN  IF enc.rejected
        THEN [new EXCEPT !.phase = "done", !.outcome = "rejected", !.value = GetBodyError]
        ELSE IF HeadWithBody(o, enc.body)
        THEN [new EXCEPT !.phase = "done", !.outcome = "rejected", !.value = HeadBodyError]
        ELSE [new EXCEPT !.phase = "sent", !.opens = 1, !.sends = 1,
                         !.opened = OpenArgs(o, enc.url),
                         !.headers = SetHeaders(o.headers),
                         !.sent = SendArg(enc.body)]

\* the load event as the handler saw it
LoadEvent(xhr) ==
    [t |-> "load", status |-> xhr.status, responseText |-> xhr.responseText,
     hasResponse |-> xhr.hasResponse]

OnLoadOnlyErrorStatus(r, xhr) ==
    IF xhr.status >= 400
    THEN [r EXCEPT !.phase = "done", !.outcome = "rejected", !.event = LoadEvent(xhr),
                   !.value = [kind |-> "Error", message |-> xhr.responseText]]
    ELSE [r EXCEPT !.phase = "done", !.outcome = "resolved", !.event = LoadEvent(xhr),
                   !.value = IF xhr.hasResponse THEN xhr.response ELSE xhr.responseText]

\* xhr.onload
OnLoad(r, xhr) ==
    IF xhr.status >= 400 \/ xhr.status = 0
    THEN [r EXCEPT !.phase = "done", !.outcome = "rejected", !.event = LoadEvent(xhr),
                   !.value = [kind |-> "Error", message |-> xhr.responseText]]
    ELSE [r EXCEPT !.phase = "done", !.outcome = "resolved", !.event = LoadEvent(xhr),
                   !.value = IF xhr.hasResponse THEN xhr.response ELSE xhr.responseText]

OnErrorSendsAgain(r, error) == [r EXCEPT !.sends = @ + 1, !.event = [t |-> "error"]]

\* xhr.onerror
OnError(r, error) ==
    [r EXCEPT !.phase = "done", !.outcome = "rejected", !.value = error,
              !.event = [t |-> "error"]]

\* xhr.onabort
OnAbort(r) ==
    [r EXCEPT !.phase = "done", !.outcome = "rejected", !.event = [t |-> "abort"],
              !.value = [kind |-> "TypeError", message |-> <<"Network request aborted">>]]

\* xhr.ontimeout
OnTimeout(r) ==
    [r EXCEPT !.phase = "done", !.outcome = "rejected", !.event = [t |-> "timeout"],
              !.value = [kind |-> "TypeError", message |-> <<"Network request timed out">>]]

----------------------------------------------------------------------------
(* fetch: actions of one invocation, which owns its xhr and its promise *)

Fetch(in) ==
    /\ req.phase = "idle"
    /\ req' = Executor(in.url, in.options)
    /\ UNCHANGED <<jsonpVars, json, searchVars>>

\* the transport signals exactly one of load, error, abort, timeout per send
XhrLoad(xhr) ==
    /\ req.phase = "sent"
    /\ req' = OnLoad(req, xhr)
    /\ UNCHANGED <<jsonpVars, json, searchVars>>

XhrError(error) ==
    /\ req.phase = "sent"
    /\ req' = OnError(req, error)
    /\ UNCHANGED <<jsonpVars, json, searchVars>>

XhrAbort ==
    /\ req.phase = "sent"
    /\ req' = OnAbort(req)
    /\ UNCHANGED <<jsonpVars, json, searchVars>>

XhrTimeout ==
    /\ req.phase = "sent"
    /\ req' = OnTimeout(req)
    /\ UNCHANGED <<jsonpVars, json, searchVars>>

InitFetch ==
    /\ jsonp = [c \in Calls |-> NoCall]
    /\ window = {}
    /\ head = <<>>
    /\ uncaught = {}
    /\ legacy = FALSE
    /\ req = NoReq
    /\ NothingElse

NextFetch ==
    \/ \E in \in FetchInputs : Fetch(in)
    \/ \E xhr \in XhrLoads : XhrLoad(xhr)
    \/ \E error \in ErrorEvents : XhrError(error)
    \/ XhrAbort
    \/ XhrTimeout

SpecFetch == InitFetch /\ [][NextFetch]_vars

----------------------------------------------------------------------------
(* fetch: properties *)

Invoked == req.phase # "idle"

\* the options the caller supplied, an omitted options object being empty
Given == IF req.options.t = "undefined"
         THEN RequestOptions(Undef, Undef, Undef, Undef)
         ELSE req.options

GetOrDelete == IsStr(Given.method, <<"GET">>) \/ IsStr(Given.method, <<"DELETE">>)

Opened == req.opened.t = "open"

NeverSent == req.opened.t = "undefined" /\ req.sent.t = "unsent"

RejectedWith(error) == req.outcome = "rejected" /\ req.value = error

OwnPairs(body) ==
    LET own == SelectSeq(body.props, LAMBDA p : p.own)
    IN  [i \in 1..Len(own) |-> own[i].key \o <<"=">> \o ToStr(own[i].val)]

\* url, then '?' or '&', then the key=value pairs joined by '&'
ExpectedQueryUrl(url, body) ==
    url \o (IF \E i \in 1..Len(url) : url[i] = "?" THEN <<"&">> ELSE <<"?">>)
        \o JoinWith(OwnPairs(body), <<"&">>)

\* C6: with method GET or DELETE, a body that is a string, a number or a
\* boolean (the empty string, 0 and false included) makes fetch reject with
\* the type-mismatch error, and the request is never opened or sent.
C6_NonObjectRejected ==
    (Invoked /\ GetOrDelete /\ Given.body.t \in {"string", "number", "boolean"}) =>
        /\ RejectedWith(GetBodyError)
        /\ NeverSent

\* C7: with method HEAD, a body that is non-empty after the encoding step (a
\* non-empty string, or a non-string value that JSON-serialises to a
\* non-empty string) makes fetch reject with 'Body not allowed for HEAD
\* requests' without opening or sending; a HEAD request that is opened is
\* sent with null or the empty string.
C7_HeadBody ==
    (Invoked /\ IsStr(Given.method, <<"HEAD">>)) =>
        LET b == Given.body
            nonEmpty == \/ b.t = "string" /\ b.v # <<>>
                        \/ /\ b.t # "string"
                           /\ JsonStringify(b).t = "string"
                           /\ JsonStringify(b).v # <<>>
        IN  /\ nonEmpty => (RejectedWith(HeadBodyError) /\ NeverSent)
            /\ Opened => (~nonEmpty /\ req.sent \in {Null, Str(<<>>)})

\* HEAD with body 0, whose encoding "0" is non-empty, was rejected
C7_Witness ==
    /\ Invoked
    /\ IsStr(Given.method, <<"HEAD">>)
    /\ Given.body = Num(0)
    /\ req.outcome = "rejected"
    /\ req.phase = "done"

\* C8: with method GET or DELETE and an object body, the request is opened
\* with the input URL, then '?' when the URL holds no '?' and '&' otherwise,
\* then key=value of every own enumerable property in enumeration order,
\* joined by '&', the values verbatim; 'https://e/search' with
\* {q:'x', limit:5} is opened as 'https://e/search?q=x&limit=5'.
C8_QueryUrl ==
    (Invoked /\ GetOrDelete /\ Given.body.t = "object") =>
        /\ Opened
        /\ req.opened.url = ExpectedQueryUrl(req.url, Given.body)
        /\ ( /\ req.url = <<"https://e/search">>
             /\ Given.body = Obj(<<Prop(<<"q">>, Str(<<"x">>)), Prop(<<"limit">>, Num(5))>>) )
            => req.opened.url =
                 <<"https://e/search", "?", "q", "=", "x", "&", "limit", "=", "5">>

\* DELETE on a URL that has a query, the body holding an inherited property
\* and a value with '&' in it
C8_Witness ==
    /\ Invoked
    /\ IsStr(Given.method, <<"DELETE">>)
    /\ req.url = UrlQuery
    /\ Given.body.t = "object"
    /\ Len(Given.body.props) = 3
    /\ req.opened.url =
          <<"https://e/search", "?", "q=x", "&", "a", "=", "1", "&", "b=2", "&", "n", "=", "null">>

\* C9: with method GET or DELETE and an object body, the value handed to
\* xhr.send is null, not the object.
C9_BodyNotTransmitted ==
    (Invoked /\ GetOrDelete /\ Given.body.t = "object") =>
        /\ Opened
        /\ req.sent = Null

\* C10: with options.method omitted the request is a GET in every respect:
\* it is opened with GET, an object body is appended to the URL as
\* query-string parameters, and a string, number or boolean body that a GET
\* would reject is rejected before anything is opened or sent.
C10_DefaultGet ==
    (Invoked /\ Given.method.t = "undefined") =>
        /\ Opened => req.opened.method = <<"GET">>
        /\ Given.body.t = "object" =>
              /\ Opened
              /\ req.opened.url = ExpectedQueryUrl(req.url, Given.body)
        /\ (Given.body.t \in {"string", "number", "boolean"} /\ Truthy(Given.body)) =>
              /\ RejectedWith(GetBodyError)
              /\ NeverSent

\* C12: when the transport signals load, fetch rejects with an Error whose
\* message is the raw response text if the status is >= 400 or 0, and
\* otherwise resolves with the response body; status 500 with body
\* 'Internal Error' rejects with message 'Internal Error'.
C12_LoadOutcome ==
    req.event.t = "load" =>
        /\ (req.event.status >= 400 \/ req.event.status = 0) =>
              /\ req.outcome = "rejected"
              /\ req.value.kind = "Error"
              /\ req.value.message = req.event.responseText
        /\ (req.event.status < 400 /\ req.event.status # 0) =>
              /\ req.outcome = "resolved"
              /\ req.value = req.event.responseText
        /\ (req.event.status = 500 /\ req.event.responseText = <<"Internal Error">>) =>
              req.value.message = <<"Internal Error">>

\* load with status 0 and the body 'Internal Error' was rejected
C12_Witness ==
    /\ req.event.t = "load"
    /\ req.event.status = 0
    /\ req.event.responseText = <<"Internal Error">>
    /\ req.outcome = "rejected"

\* C13: a fetch invocation opens and sends at most one request; the first
\* completion event (load, error, abort, timeout) settles its result, and
\* from then on nothing of the invocation changes: no retry, no second
\* settlement.
C13_SingleAttempt ==
    [][/\ req'.opens <= 1
       /\ req'.sends <= 1
       /\ (req.phase = "sent" /\ req'.event.t # "none") =>
             /\ req'.outcome # "pending"
             /\ req'.phase = "done"
             /\ req'.opened = req.opened
             /\ req'.sent = req.sent
       /\ req.outcome # "pending" => req' = req
      ]_vars

\* a request that was sent once ended with a network error
C13_Witness ==
    /\ req.phase = "done"
    /\ req.event.t = "error"
    /\ req.opens = 1
    /\ req.sends = 1
    /\ req.outcome = "rejected"

----------------------------------------------------------------------------
(* fetchJSON *)

ContentType == <<"Content-Type">>

JsonHeaderValues ==
    { Undef,
      Obj(<<>>),
      Obj(<<Prop(<<"X-Requested-With">>, Str(<<"widget">>))>>),
      Obj(<<Prop(ContentType, Str(<<"text/plain">>))>>),
      Obj(<<Prop(<<"content-type">>, Str(<<"text/plain">>))>>),
      Obj(<<Prop(ContentType, Str(<<>>))>>) }

FetchJSONInputs ==
    { [url |-> UrlPlain, options |-> Undef] }
    \cup
    { [url |-> UrlPlain, options |-> RequestOptions(m, h, b, Undef)] :
        m \in {Undef, Str(<<"GET">>), Str(<<"POST">>), Str(<<"HEAD">>)},
        h \in JsonHeaderValues,
        b \in {Undef, Str(<<"x">>), Obj(<<Prop(<<"q">>, Str(<<"x">>))>>)} }

\* if (!options) options = {}; if (!options.headers) options.headers = {};
\* if (!options.headers['Content-Type'])
\*     options.headers['Content-Type'] = 'application/json'
WithJsonContentType(options) ==
    LET o1 == IF Truthy(options) THEN options
              ELSE RequestOptions(Undef, Undef, Undef, Undef)
        o2 == IF Truthy(o1.headers) THEN o1 ELSE [o1 EXCEPT !.headers = Obj(<<>>)]
    IN  IF Truthy(GetProp(o2.headers, ContentType))
        THEN o2
        ELSE [o2 EXCEPT !.headers =
                 SetProp(o2.headers, ContentType, Str(<<"application/json">>))]

ThenParseSwallows(j, r) ==
    IF r.outcome = "resolved"
    THEN [j EXCEPT !.phase = "done", !.outcome = "resolved", !.parses = @ + 1,
                   !.value = JsonParse(r.value).val]
    ELSE [j EXCEPT !.phase = "done", !.outcome = "rejected", !.value = r.value]

\* fetch(url, options).then(result => JSON.parse(result)) once fetch settled:
\* a rejection passes through, an exception of JSON.parse rejects
ThenParse(j, r) ==
    IF r.outcome = "resolved"
    THEN [j EXCEPT !.phase = "done", !.parses = @ + 1,
                   !.outcome = IF JsonParse(r.value).ok THEN "resolved" ELSE "rejected",
                   !.value = JsonParse(r.value).val]
    ELSE [j EXCEPT !.phase = "done", !.outcome = "rejected", !.value = r.value]

\* fetchJSON(url, options) up to the return of the promise
FetchJSON(in) ==
    /\ json.phase = "idle"
    /\ req.phase = "idle"
    /\ json' = [NoJson EXCEPT !.phase = "waiting", !.url = in.url, !.given = in.options]
    /\ req' = Executor(in.url, WithJsonContentType(in.options))
    /\ UNCHANGED <<jsonpVars, searchVars>>

\* the reaction registered by .then runs after fetch settled
JsonThen ==
    /\ json.phase = "waiting"
    /\ req.phase = "done"
    /\ json' = ThenParse(json, req)
    /\ UNCHANGED <<jsonpVars, req, searchVars>>

NextJSON ==
    \/ \E in \in FetchJSONInputs : FetchJSON(in)
    \/ \E xhr \in XhrLoads : XhrLoad(xhr)
    \/ \E error \in ErrorEvents : XhrError(error)
    \/ XhrAbort
    \/ XhrTimeout
    \/ JsonThen

SpecJSON == InitFetch /\ [][NextJSON]_vars

----------------------------------------------------------------------------
(* fetchJSON: properties *)

\* header names compare without regard to case
LowerName(key) ==
    [i \in 1..Len(key) |->
        IF key[i] \in {"Content-Type", "content-type"} THEN "content-type" ELSE key[i]]

IsContentType(key) == LowerName(key) = <<"content-type">>

\* the Content-Type headers the caller of fetchJSON set, as setRequestHeader pairs
CallerContentTypes ==
    IF Truthy(json.given) /\ Truthy(json.given.headers)
    THEN LET own == SelectSeq(json.given.headers.props,
                              LAMBDA p : p.own /\ IsContentType(p.key))
         IN  [i \in 1..Len(own) |-> [key |-> own[i].key, val |-> own[i].val]]
    ELSE <<>>

SentContentTypes == SelectSeq(req.headers, LAMBDA h : IsContentType(h.key))

\* C11: a request sent by fetchJSON carries exactly one Content-Type header:
\* the caller's own, unchanged, when the caller set one under any spelling of
\* the name, and Content-Type: application/json otherwise.
C11_ContentType ==
    (json.phase # "idle" /\ req.sends = 1) =>
        IF CallerContentTypes = <<>>
        THEN SentContentTypes =
                <<[key |-> ContentType, val |-> Str(<<"application/json">>)]>>
        ELSE SentContentTypes = CallerContentTypes

\* a transport failure is an Error, a TypeError or the event's error field
TransportFailure(value) ==
    \/ value = Undef
    \/ value \in ErrorEvents
    \/ value.kind \in {"Error", "TypeError"}

\* C14: fetchJSON resolves only with the parsed body of a fetch that
\* resolved; when fetch resolved with a body that is not JSON the call is
\* rejected with a SyntaxError, which no transport failure is; when fetch
\* was rejected the call is rejected with the same reason and JSON.parse
\* was not called.
C14_Decoding ==
    json.phase = "done" =>
        /\ json.outcome = "resolved" =>
              /\ req.outcome = "resolved"
              /\ req.value = ChairResponse
              /\ JsonStringify(json.value).v = req.value
              /\ GetProp(GetProp(json.value, <<"hits">>), <<"total">>) = Num(2)
        /\ (req.outcome = "resolved"
               /\ req.value \in {<<"Internal Error">>, <<>>, <<"{", "\"", "hits", "\"", ":">>}) =>
              /\ json.outcome = "rejected"
              /\ json.value.kind = "SyntaxError"
              /\ ~TransportFailure(json.value)
        /\ req.outcome = "rejected" =>
              /\ json.outcome = "rejected"
              /\ json.value = req.value
              /\ TransportFailure(json.value)
              /\ json.parses = 0

\* fetch resolved with an empty body and fetchJSON failed with the decoding error
C14_Witness ==
    /\ json.phase = "done"
    /\ req.outcome = "resolved"
    /\ req.value = <<>>
    /\ json.outcome = "rejected"
    /\ json.parses = 1

----------------------------------------------------------------------------
(* ElasticSearchService.search *)

\* SearchController.requestURL
RequestURL ==
    <<"https://1hy5arpx48.execute-api.us-east-1.amazonaws.com/prod/moebelat/", "_", "search">>

Terms == {<<"chair">>, <<>>}

\* a customConfig of the caller: a GET whose body becomes the query string
CustomConfig ==
    RequestOptions(Str(<<"GET">>), Undef, Obj(<<Prop(<<"size">>, Num(5))>>), Undef)

SearchInputs == { [term |-> t, custom |-> c] : t \in Terms, c \in {Undef, CustomConfig} }

GetDefaultConfigOtherField(searchTerm) ==
    RequestOptions(Str(<<"POST">>), Undef,
        Obj(<<Prop(<<"query">>,
                   Obj(<<Prop(<<"match">>, Obj(<<Prop(<<"title">>, Str(searchTerm))>>))>>)),
              Prop(<<"highlight">>,
                   Obj(<<Prop(<<"pre_tags">>, Arr(<<Str(<<"<strong>">>)>>)),
                         Prop(<<"post_tags">>, Arr(<<Str(<<"</strong>">>)>>)),
                         Prop(<<"fields">>, Obj(<<Prop(<<"*">>, Obj(<<>>))>>)),
                         Prop(<<"require_field_match">>, Bool(FALSE))>>))>>),
        Undef)

\* getDefaultConfig(searchTerm): { method: 'POST', body: { query, highlight } }
GetDefaultConfig(searchTerm) ==
    RequestOptions(Str(<<"POST">>), Undef,
        Obj(<<Prop(<<"query">>,
                   Obj(<<Prop(<<"match">>, Obj(<<Prop(<<"url">>, Str(searchTerm))>>))>>)),
              Prop(<<"highlight">>,
                   Obj(<<Prop(<<"pre_tags">>, Arr(<<Str(<<"<strong>">>)>>)),
                         Prop(<<"post_tags">>, Arr(<<Str(<<"</strong>">>)>>)),
                         Prop(<<"fields">>, Obj(<<Prop(<<"*">>, Obj(<<>>))>>)),
                         Prop(<<"require_field_match">>, Bool(FALSE))>>))>>),
        Undef)

ConfigForAlwaysBuilt(searchTerm, customConfig) == GetDefaultConfig(searchTerm)

\* if (customConfig) customConfig else this.getDefaultConfig(searchTerm)
ConfigFor(searchTerm, customConfig) ==
    IF Truthy(customConfig) THEN customConfig ELSE GetDefaultConfig(searchTerm)

MissingEndpointError == [kind |-> "Error", message |-> <<"search url not set">>]

SearchRequestValidates(url, config) ==
    IF url = <<>>
    THEN [NoReq EXCEPT !.url = url, !.options = config, !.phase = "done",
                       !.outcome = "rejected", !.value = MissingEndpointError]
    ELSE Executor(url, WithJsonContentType(config))

\* this._requestService.fetchJSON(this._searchURL, config) up to its return:
\* the request fetch makes of the defaulted options
SearchRequest(url, config) == Executor(url, WithJsonContentType(config))

\* the endpoint answers a match query on 'chair' with the two-hit document,
\* any other match query with no hit, any other request with five
EmptyResponse(total) ==
    <<"{", "\"", "hits", "\"", ":", "{", "\"", "total", "\"", ":", total, ",",
      "\"", "hits", "\"", ":", "[", "]", "}", "}">>

TotalFor(sent) ==
    IF sent.t # "string" THEN 5
    ELSE LET parsed == JsonParse(sent.v)
         IN  IF ~parsed.ok THEN 5
             ELSE IF GetProp(GetProp(GetProp(parsed.val, <<"query">>),
                                     <<"match">>), <<"url">>) = Str(<<"chair">>)
                  THEN 2 ELSE 0

ResponseFor(sent) ==
    LET total == TotalFor(sent)
    IN  IF total = 2 THEN ChairResponse ELSE EmptyResponse(ToString(total))

XhrDone(status, text) ==
    [status |-> status, responseText |-> text, hasResponse |-> TRUE, response |-> text]

\* the completion events the transport can signal for a request: nothing
\* sets xhr.timeout or calls xhr.abort()
CompletionsFor(r) ==
    LET answer == ResponseFor(r.sent)
    IN  { [t |-> "load", xhr |-> XhrDone(200, answer)],
          [t |-> "load", xhr |-> XhrDone(200, <<"<html>">>)],
          [t |-> "load", xhr |-> XhrDone(500, <<"Internal Error">>)],
          [t |-> "error", error |-> Undef] }

\* the handler of the xhr of request r that the event runs
OnEvent(r, ev) ==
    CASE ev.t = "load"    -> OnLoad(r, ev.xhr)
      [] ev.t = "error"   -> OnError(r, ev.error)
      [] ev.t = "abort"   -> OnAbort(r)
      [] OTHER            -> OnTimeout(r)

\* promises of the searches settled so far plus one
NextArrival(ss) == 1 + Cardinality({j \in Searches : ss[j].arrived > 0})

DeliverToLatest(ss, i, ev) ==
    LET k == CHOOSE j \in Searches :
                 /\ ss[j].req.phase = "sent"
                 /\ \A m \in Searches : ss[m].req.phase = "sent" => m <= j
    IN  [ss EXCEPT ![k].req = OnEvent(@, ev), ![k].arrived = NextArrival(ss)]

\* the event of the xhr of search i runs the handlers that closed over the
\* promise of search i
Deliver(ss, i, ev) ==
    [ss EXCEPT ![i].req = OnEvent(@, ev), ![i].arrived = NextArrival(ss)]

\* set searchUrl(searchUrl)
SetSearchUrl(url) ==
    /\ searchURL # url
    /\ searchURL' = url
    /\ UNCHANGED <<jsonpVars, req, json, searches, jobs, order>>

\* search(searchTerm, customConfig) up to the return of the promise; a
\* request rejected by the executor queues the reaction at once
Search(i, in) ==
    /\ searches[i].phase = "idle"
    /\ \A j \in 1..(i - 1) : searches[j].phase # "idle"
    /\ LET config == ConfigFor(in.term, in.custom)
           r      == SearchRequest(searchURL, config)
           early  == r.phase = "done"
       IN  /\ searches' = [searches EXCEPT ![i] =
                  [phase |-> "waiting", term |-> in.term, custom |-> in.custom,
                   endpoint |-> searchURL, req |-> r,
                   arrived |-> IF early THEN NextArrival(searches) ELSE 0,
                   json |-> [NoJson EXCEPT !.phase = "waiting", !.url = searchURL,
                                           !.given = config]]]
           /\ jobs' = IF early THEN Append(jobs, i) ELSE jobs
    /\ UNCHANGED <<jsonpVars, req, json, searchURL, order>>

\* the transport signals the completion of the request of search i
Complete(i, ev) ==
    /\ searches[i].req.phase = "sent"
    /\ searches' = Deliver(searches, i, ev)
    /\ jobs' = Append(jobs, i)
    /\ UNCHANGED <<jsonpVars, req, json, searchURL, order>>

\* the oldest queued reaction runs: the promise search returned settles
RunJob ==
    /\ jobs # <<>>
    /\ LET i == Head(jobs)
       IN  searches' = [searches EXCEPT ![i].phase = "done",
                                        ![i].json = ThenParse(@, searches[i].req)]
    /\ jobs' = Tail(jobs)
    /\ order' = Append(order, Head(jobs))
    /\ UNCHANGED <<jsonpVars, req, json, searchURL>>

NextSearch ==
    \/ SetSearchUrl(RequestURL)
    \/ \E i \in Searches, in \in SearchInputs : Search(i, in)
    \/ \E i \in Searches :
          /\ searches[i].req.phase = "sent"
          /\ \E ev \in CompletionsFor(searches[i].req) : Complete(i, ev)
    \/ RunJob

SpecSearch == InitFetch /\ [][NextSearch]_vars

----------------------------------------------------------------------------
(* properties of search *)

Issued(i) == searches[i].phase # "idle"

Override(i) == Issued(i) /\ searches[i].custom # Undef

Built(i) == Issued(i) /\ searches[i].custom = Undef

\* the JSON text of the query of a term
ExpectedQueryJson(term) ==
    <<"{", "\"", "query", "\"", ":", "{", "\"", "match", "\"", ":",
      "{", "\"", "url", "\"", ":", "\"">> \o term \o <<"\"", "}", "}", ",",
      "\"", "highlight", "\"", ":", "{",
      "\"", "pre_tags", "\"", ":", "[", "\"", "<strong>", "\"", "]", ",",
      "\"", "post_tags", "\"", ":", "[", "\"", "</strong>", "\"", "]", ",",
      "\"", "fields", "\"", ":", "{", "\"", "*", "\"", ":", "{", "}", "}", ",",
      "\"", "require_field_match", "\"", ":", "false", "}", "}">>

\* the object the two-hit response text denotes
ChairObject ==
    Obj(<<Prop(<<"hits">>,
          Obj(<<Prop(<<"total">>, Num(2)),
                Prop(<<"hits">>,
                     Arr(<<Obj(<<Prop(<<"highlight">>,
                                 Obj(<<Prop(<<"url">>,
                                       Arr(<<Str(<<"<strong>chair</strong>">>)>>))>>))>>)>>))>>))>>)

\* the requests of two searches put the same call, headers and payload on the wire
SameRequest(i, j) ==
    /\ searches[i].req.opens = searches[j].req.opens
    /\ searches[i].req.opened = searches[j].req.opened
    /\ searches[i].req.headers = searches[j].req.headers
    /\ searches[i].req.sent = searches[j].req.sent

\* C15: a search given override options hands exactly these options to the
\* JSON client for the configured endpoint, and its request is the same
\* whatever the term; a search without them opens one POST to the configured
\* endpoint whose payload is the JSON text of the query of its term, and a
\* successful response makes it resolve with the parsed object: the two-hit
\* response of the 'chair' scenario resolves with the object whose
\* hits.total is 2.
C15_SearchRequest ==
    \A i \in Searches :
        /\ Issued(i) => searches[i].json.url = searches[i].endpoint
                         /\ searches[i].req.url = searches[i].endpoint
        /\ Override(i) =>
              /\ searches[i].json.given = searches[i].custom
              /\ \A j \in Searches :
                    Override(j) /\ searches[j].custom = searches[i].custom
                                /\ searches[j].endpoint = searches[i].endpoint
                        => SameRequest(i, j)
        /\ Built(i) =>
              /\ searches[i].req.opens = 1
              /\ searches[i].req.opened.method = <<"POST">>
              /\ searches[i].req.opened.url = searches[i].endpoint
              /\ searches[i].req.sent = Str(ExpectedQueryJson(searches[i].term))
              /\ searches[i].phase = "done" /\ searches[i].req.outcome = "resolved"
                    /\ JsonParse(searches[i].req.value).ok
                  => /\ searches[i].json.outcome = "resolved"
                     /\ searches[i].json.value = JsonParse(searches[i].req.value).val
              /\ searches[i].phase = "done" /\ searches[i].req.event.t = "load"
                    /\ searches[i].req.event.status = 200
                    /\ searches[i].req.event.responseText = ChairResponse
                  => /\ searches[i].json.outcome = "resolved"
                     /\ searches[i].json.value = ChairObject
                     /\ GetProp(GetProp(searches[i].json.value, <<"hits">>),
                                <<"total">>) = Num(2)

\* search('chair') with the endpoint configured has resolved with the two-hit
\* object, and two searches with the same override and different terms were issued
C15_Witness ==
    /\ \E i \in Searches :
          /\ Built(i) /\ searches[i].term = <<"chair">>
          /\ searches[i].endpoint = RequestURL
          /\ searches[i].phase = "done"
          /\ searches[i].json.outcome = "resolved"
          /\ searches[i].json.value = ChairObject
    /\ \E j \in Searches : Override(j) /\ searches[j].req.phase = "sent"

\* search i has settled with what its own request brought: the parsed answer
\* of the endpoint to its own payload, or the rejection of its own request,
\* or the decoding error of its own response
OwnOutcome(i) ==
    LET s == searches[i]
    IN  /\ s.req.phase = "done"
        /\ s.json.outcome = "resolved" =>
              /\ s.req.event.t = "load" /\ s.req.event.status = 200
              /\ s.req.event.responseText = ResponseFor(s.req.sent)
              /\ s.json.value = JsonParse(ResponseFor(s.req.sent)).val
        /\ s.json.outcome = "rejected" =>
              \/ s.req.outcome = "rejected" /\ s.json.value = s.req.value
              \/ /\ s.req.outcome = "resolved" /\ s.req.event.t = "load"
                 /\ s.req.value = s.req.event.responseText
                 /\ ~JsonParse(s.req.value).ok
                 /\ s.json.value.kind = "SyntaxError"

\* the promises settled in the order in which their requests completed
ArrivalOrder ==
    \A p, q \in 1..Len(order) :
        p < q => searches[order[p]].arrived < searches[order[q]].arrived

\* a step touches one search; a request in flight ends by an event of its own
IndependentStep ==
    \A i \in Searches :
        /\ searches'[i] # searches[i] =>
              \A j \in Searches \ {i} : searches'[j] = searches[j]
        /\ searches[i].req.phase = "sent" /\ searches'[i].req.phase # "sent" =>
              /\ searches'[i].req.event.t # "none"
              /\ searches'[i].req.sent = searches[i].req.sent

\* C16: concurrent searches are independent. Every issued search that passed
\* the request checks sent one request of its own, even when another search
\* with the same term is in flight; a search that has settled settled with
\* the outcome of its own request; a step changes one search only and a
\* request in flight ends only by its own completion event; and the searches
\* settle in the order of their completion events, whatever the order of issue.
C16_Independent ==
    /\ [](\A i \in Searches :
            /\ Issued(i) /\ searches[i].req.opens = 1 => searches[i].req.sends = 1
            /\ searches[i].phase = "done" => OwnOutcome(i))
    /\ []ArrivalOrder
    /\ [][IndependentStep]_vars

\* two searches were in flight together and the one issued later settled
\* first, each resolved with the answer to its own query
C16_Witness ==
    /\ MaxSearches >= 2
    /\ order = <<2, 1>>
    /\ searches[1].term = <<"chair">> /\ searches[2].term = <<>>
    /\ Built(1) /\ Built(2)
    /\ searches[1].json.outcome = "resolved" /\ searches[1].json.value = ChairObject
    /\ searches[2].json.outcome = "resolved" /\ searches[2].json.value # ChairObject

\* the highlight clause of every query
FixedHighlight ==
    Obj(<<Prop(<<"pre_tags">>, Arr(<<Str(<<"<strong>">>)>>)),
          Prop(<<"post_tags">>, Arr(<<Str(<<"</strong>">>)>>)),
          Prop(<<"fields">>, Obj(<<Prop(<<"*">>, Obj(<<>>))>>)),
          Prop(<<"require_field_match">>, Bool(FALSE))>>)

\* the query built for search i
QueryOf(i) == searches[i].json.given.body

\* C17: the query builder is pure and total. For every term, the empty one
\* included, a search without override options gets a query object with
\* exactly two clauses: a match on the field url with the term, and the fixed
\* highlight clause (<strong> tags, all fields, require_field_match false);
\* two searches with the same term get equal queries; and the step that
\* builds the query leaves the endpoint and the other searches as they were.
C17_QueryBuilder ==
    /\ [](\A i \in Searches : Built(i) =>
            /\ QueryOf(i).t = "object" /\ Len(QueryOf(i).props) = 2
            /\ GetProp(QueryOf(i), <<"query">>) =
                   Obj(<<Prop(<<"match">>,
                         Obj(<<Prop(<<"url">>, Str(searches[i].term))>>))>>)
            /\ GetProp(QueryOf(i), <<"highlight">>) = FixedHighlight
            /\ \A j \in Searches :
                  Built(j) /\ searches[j].term = searches[i].term
                      => searches[j].json.given = searches[i].json.given)
    /\ [][\A i \in Searches :
            ~Issued(i) /\ Issued(i)' =>
                /\ searchURL' = searchURL
                /\ \A j \in Searches \ {i} : searches'[j] = searches[j]]_vars

\* two searches with the empty term were issued and each got its query
C17_Witness ==
    \E i, j \in Searches :
        /\ i # j /\ Built(i) /\ Built(j)
        /\ searches[i].term = <<>> /\ searches[j].term = <<>>
        /\ searches[i].req.sends = 1 /\ searches[j].req.sends = 1
        /\ GetProp(GetProp(GetProp(QueryOf(i), <<"query">>), <<"match">>), <<"url">>)
              = Str(<<>>)

\* search i was issued before the endpoint was ever set
Unset(i) == Issued(i) /\ searches[i].endpoint = <<>>

\* the request of search i went out to the empty URL without a local check
DispatchedUnvalidated(i) ==
    /\ searches[i].req.url = <<>>
    /\ searches[i].req.opens = 1 /\ searches[i].req.sends = 1
    /\ Built(i) => searches[i].req.opened.url = <<>>
    /\ searches[i].req.phase = "done" => searches[i].req.event.t # "none"

\* C19: search does not validate the endpoint. A search issued while the
\* endpoint was never set still opens and sends its request, to the empty
\* URL, and ends only by a completion event of that request; and when it
\* fails, the failure the caller sees is the transport error of that request.
C19_UnsetEndpoint ==
    \A i \in Searches : Unset(i) =>
        /\ DispatchedUnvalidated(i)
        /\ searches[i].phase = "done" /\ searches[i].json.outcome = "rejected" =>
              /\ searches[i].req.outcome = "rejected"
              /\ searches[i].json.value = searches[i].req.value
              /\ TransportFailure(searches[i].json.value)

\* C19, amended: a search issued while the endpoint was never set still opens
\* and sends its request, to the empty URL, and ends only by a completion
\* event of that request; when it fails, the caller sees the failure of that
\* request: its transport error, or the decoding error of the response the
\* empty URL returned.
C19_NoLocalValidation ==
    \A i \in Searches : Unset(i) =>
        /\ DispatchedUnvalidated(i)
        /\ searches[i].phase = "done" /\ searches[i].json.outcome = "rejected" =>
              \/ /\ searches[i].req.outcome = "rejected"
                 /\ searches[i].json.value = searches[i].req.value
                 /\ TransportFailure(searches[i].json.value)
              \/ /\ searches[i].req.outcome = "resolved"
                 /\ searches[i].req.event.t = "load"
                 /\ ~JsonParse(searches[i].req.event.responseText).ok
                 /\ searches[i].json.value.kind = "SyntaxError"

\* a search issued with the endpoint unset was sent to the empty URL and
\* failed with the error of the response that came back
C19_Witness ==
    \E i \in Searches :
        /\ Unset(i) /\ Built(i) /\ searches[i].phase = "done"
        /\ searches[i].req.opened.url = <<>>
        /\ searches[i].req.event.t = "load" /\ searches[i].req.event.status = 500
        /\ searches[i].json.outcome = "rejected"
        /\ searches[i].json.value = [kind |-> "Error", message |-> <<"Internal Error">>]

----------------------------------------------------------------------------
(* fetchJSONP: calls that share a callback name *)

SameName(c, d) ==
    /\ jsonp[c].started /\ jsonp[d].started
    /\ jsonp[c].callbackFnName = jsonp[d].callbackFnName

\* a call made after c registered the name of c again
Replaced(c) == \E d \in Calls : d > c /\ SameName(c, d)

\* C18: calls that share an explicit callback name collide. A call registers
\* its function under its name whoever held the name before, a call in
\* flight included; a call whose name was registered again by a later call
\* is never resolved by a response or reached by the callback, so it ends
\* by its timeout only; a response under the name resolves the call that
\* registered last; and the handler of whichever call finishes leaves no
\* function under the name, whoever registered it.
C18_NameCollision ==
    [][\A c \in Calls :
          /\ ~jsonp[c].started /\ jsonp'[c].started =>
                Lookup(window', jsonp'[c].callbackFnName) = c
          /\ Replaced(c) =>
                /\ jsonp'[c].cbRuns = jsonp[c].cbRuns
                /\ jsonp[c].outcome = "pending" =>
                      jsonp'[c].outcome \in {"pending", "rejected"}
          /\ jsonp[c].outcome = "pending" /\ jsonp'[c].outcome = "resolved" =>
                /\ Lookup(window, jsonp[c].callbackFnName) = c
                /\ \A d \in Calls : SameName(c, d) => d <= c
          /\ jsonp[c].started /\ Handled(c)' > Handled(c) =>
                Lookup(window', jsonp[c].callbackFnName) <= 0
      ]_vars

\* two calls under the name 'c' were in flight together; the response of the
\* script of the earlier call resolved the later call, whose cleanup took the
\* name away while the earlier call is still pending with its timer armed
C18_Witness ==
    \E c, d \in Calls :
        /\ c < d /\ SameName(c, d)
        /\ jsonp[c].callbackFnName = <<"c">>
        /\ jsonp[c].loaded \in Payloads /\ jsonp[d].loaded = "no"
        /\ jsonp[d].outcome = "resolved" /\ jsonp[d].value = jsonp[c].loaded
        /\ jsonp[c].outcome = "pending" /\ jsonp[c].timer = "pending"
        /\ jsonp[c].cbRuns = 0
        /\ Lookup(window, <<"c">>) <= 0

----------------------------------------------------------------------------
(* fetchJSONP: termination and release of the name and the script *)

\* setTimeout(handler, timeout): a timer that is armed and not cleared fires
SpecLive == Spec /\ \A c \in Calls : WF_vars(Timeout(c))

\* no other call made so far uses the callback name of c
NameUnique(c) ==
    \A d \in Started \ {c} : jsonp[d].callbackFnName # jsonp[c].callbackFnName

\* every call that was made settles
EventuallySettles ==
    \A c \in Calls : jsonp[c].started ~> jsonp[c].outcome # "pending"

\* C20: a call whose callback name no other call uses is, once a handler of
\* it has run, resolved by the callback or rejected by the timeout, and from
\* then on no function is registered under its name and the script element
\* it injected is not in the document.
C20_SettledAndReleased ==
    \A c \in Started :
        NameUnique(c) /\ Handled(c) > 0 =>
            /\ \/ jsonp[c].outcome = "resolved" /\ jsonp[c].cbRuns = 1
               \/ jsonp[c].outcome = "rejected" /\ jsonp[c].toRuns = 1
            /\ Lookup(window, jsonp[c].callbackFnName) <= 0
            /\ ~InHead(head, c)

====
